---------------------------- MODULE Spec2Model ----------------------------
(***************************************************************************)
(* A model of youtube_dl/extractor/bilibili.py.                            *)
(*                                                                         *)
(* Python values are represented as follows.                               *)
(*   - a dict is a function whose DOMAIN is the set of keys present;       *)
(*     the empty dict is the function with the empty domain, <<>>.         *)
(*   - a list is a sequence.                                               *)
(*   - an optional scalar (None or a value) is <<>> or <<v>>.              *)
(*   - a text that the code parses (a frame rate) is a sequence of         *)
(*     one-character strings; a URL is a sequence of path tokens.          *)
(*   - a quotient a / b of Python 3 (a float) is kept exact as the         *)
(*     record [n |-> a, d |-> b].                                          *)
(* The semantics modelled is that of Python 3: "/" is true division,       *)
(* round() rounds half to even, and None is not orderable.                 *)
(***************************************************************************)
EXTENDS Integers, Sequences, FiniteSets, TLC

VARIABLES
    pc,             \* position inside the function being run
    num,            \* loop counter of the rendition loop (1-based)
    video_info,     \* last value returned by the legacy _download_json
    entries,        \* the list of entries being built
    playinfo,       \* window.__playinfo__ 'data' dict of the web page
    playinfo_entry, \* value of extract_playinfo(playinfo)
    fetched,        \* responses the API gave so far, in request order
    result,         \* what _real_extract returned or raised
    call,           \* the function applied by the single-function specifications
    ret,            \* and what it returned
    pn,             \* BiliBiliChannelVideoIE: the page counter i (the pn= of the URL)
    items,          \* BiliBiliChannelVideoIE: the items gathered so far
    requested       \* BiliBiliChannelVideoIE: the page numbers requested so far

vars == <<pc, num, video_info, entries, playinfo, playinfo_entry, fetched, result,
          call, ret, pn, items, requested>>

\* the state of the channel extractor, and its value while another one runs
chan == <<pn, items, requested>>
NoChannel == pn = 0 /\ items = <<>> /\ requested = <<>>

-----------------------------------------------------------------------------
(* Generic helpers *)

None == <<>>
Some(v) == <<v>>

Has(d, k) == k \in DOMAIN d

SeqsUpTo(S, n) == UNION {[1..k -> S] : k \in 0..n}

-----------------------------------------------------------------------------
(* Bounds *)

MaxFrameRate == 30
MaxVideo == 2
MaxAudio == 1
MaxParts == 2
MaxBackups == 3
MaxEpisodes == 3
MaxCount == 4
MaxPages == 3

-----------------------------------------------------------------------------
(* Frame-rate text: building inputs, and the parsing done by load() *)

\* A text is the sequence of the code points of its characters.

\* the ASCII characters from the space (32) to the underscore (95)
Printable ==
    << " ", "!", "\"", "#", "$", "%", "&", "'", "(", ")", "*", "+",
       ",", "-", ".", "/", "0", "1", "2", "3", "4", "5", "6", "7",
       "8", "9", ":", ";", "<", "=", ">", "?", "@", "A", "B", "C",
       "D", "E", "F", "G", "H", "I", "J", "K", "L", "M", "N", "O",
       "P", "Q", "R", "S", "T", "U", "V", "W", "X", "Y", "Z", "[",
       "\\", "]", "^", "_" >>

\* the ASCII characters from "a" (97) to the tilde (126)
PrintableLower ==
    << "a", "b", "c", "d", "e", "f", "g", "h", "i", "j", "k", "l",
       "m", "n", "o", "p", "q", "r", "s", "t", "u", "v", "w", "x",
       "y", "z", "{", "|", "}", "~" >>

\* ord(c) of a printable ASCII character (the grave accent, 96, left out)
Ord(c) ==
    IF \E k \in 1..Len(Printable) : Printable[k] = c
    THEN 31 + (CHOOSE k \in 1..Len(Printable) : Printable[k] = c)
    ELSE 96 + (CHOOSE k \in 1..Len(PrintableLower) : PrintableLower[k] = c)

\* the text of a string of printable ASCII characters
RECURSIVE Text(_)
Text(s) ==
    IF Len(s) = 0 THEN <<>>
    ELSE Append(Text(SubSeq(s, 1, Len(s) - 1)), Ord(SubSeq(s, Len(s), Len(s))))

\* the code points int() reads as the digit 0; the nine that follow each of
\* them are its digits 1..9 (the decimal digits of Unicode 14, Python 3.11)
DigitZeros ==
    {
      48, 1632, 1776, 1984, 2406, 2534, 2662, 2790, 2918,
      3046, 3174, 3302, 3430, 3558, 3664, 3792, 3872, 4160,
      4240, 6112, 6160, 6470, 6608, 6784, 6800, 6992, 7088,
      7232, 7248, 42528, 43216, 43264, 43472, 43504, 43600, 44016,
      65296, 66720, 68912, 69734, 69872, 69942, 70096, 70384, 70736,
      70864, 71248, 71360, 71472, 71904, 72016, 72784, 73040, 73120,
      92768, 92864, 93008, 120782, 120792, 120802, 120812, 120822, 123200,
      123632, 125264, 130032 }

IsDigit(c) == \E z \in DigitZeros : z <= c /\ c <= z + 9

DigitValue(c) == c - (CHOOSE z \in DigitZeros : z <= c /\ c <= z + 9)

\* decimal text of a natural number (used only to write the inputs down)
RECURSIVE Decimal(_)
Decimal(n) ==
    IF n < 10 THEN <<48 + n>>
    ELSE Decimal(n \div 10) \o <<48 + (n % 10)>>

\* the code points int() skips at both ends of the text: tab, line feed,
\* vertical tab, form feed, carriage return, space, and the blanks beyond ASCII
WhitespaceChars ==
    {9, 10, 11, 12, 13, 32, 133, 160, 5760} \cup (8192..8202)
    \cup {8232, 8233, 8239, 8287, 12288}

\* the text without the characters int() skips at its ends
RECURSIVE Strip(_)
Strip(text) ==
    IF Len(text) = 0 THEN text
    ELSE IF text[1] \in WhitespaceChars THEN Strip(Tail(text))
    ELSE IF text[Len(text)] \in WhitespaceChars
    THEN Strip(SubSeq(text, 1, Len(text) - 1))
    ELSE text

\* the text begins with "+" (43) or "-" (45)
HasSign(text) == Len(text) > 0 /\ text[1] \in {43, 45}

\* the text after the optional sign
Unsigned(text) == IF HasSign(text) THEN Tail(text) ELSE text

\* digits, with single underscores (95) allowed between two digits
IsDigitGroups(body) ==
    /\ Len(body) > 0
    /\ \A i \in 1..Len(body) :
          \/ IsDigit(body[i])
          \/ body[i] = 95 /\ 1 < i /\ i < Len(body) /\ body[i + 1] # 95

\* the number written by digit groups; the underscores do not count
RECURSIVE DigitGroupsValue(_)
DigitGroupsValue(body) ==
    IF Len(body) = 0 THEN 0
    ELSE IF body[Len(body)] = 95 THEN DigitGroupsValue(SubSeq(body, 1, Len(body) - 1))
    ELSE 10 * DigitGroupsValue(SubSeq(body, 1, Len(body) - 1))
         + DigitValue(body[Len(body)])

\* int(text) accepts: whitespace around, an optional sign, decimal digits with
\* single underscores between them; anything else is a ValueError
IsIntText(text) == IsDigitGroups(Unsigned(Strip(text)))

\* int(text) of Python for a text int() accepts; the caller checks IsIntText.
\* Python's integers have no bound; the texts used here write numbers below
\* 2^31, where round(a / b) is also the exact nearest integer.
PyInt(text) ==
    LET t == Strip(text)
        v == DigitGroupsValue(Unsigned(t))
    IN IF HasSign(t) /\ t[1] = 45 THEN -v ELSE v

\* '/' in frame_rate; the slash is 47
HasSlash(text) == \E i \in 1..Len(text) : text[i] = 47

\* frame_rate.split('/'): the list of the texts between the slashes
RECURSIVE Split(_)
Split(text) ==
    IF ~HasSlash(text) THEN <<text>>
    ELSE LET i == CHOOSE j \in 1..Len(text) :
                      text[j] = 47 /\ \A k \in 1..(j - 1) : text[k] # 47
         IN <<SubSeq(text, 1, i - 1)>> \o Split(SubSeq(text, i + 1, Len(text)))

\* round(a / b) of Python 3 for b # 0: nearest integer, ties to even
PyRoundDiv(a, b) ==
    LET n == IF b < 0 THEN -a ELSE a
        d == IF b < 0 THEN -b ELSE b
        q == n \div d
        r == n % d
    IN IF 2 * r < d THEN q
       ELSE IF 2 * r > d THEN q + 1
       ELSE IF q % 2 = 0 THEN q ELSE q + 1

\* a // b: what round(a / b) would be if "/" were floor division
FloorDiv(a, b) == IF b < 0 THEN (-a) \div (-b) ELSE a \div b

RoundQuotient(a, b) == PyRoundDiv(a, b)

\* utils.int_or_none(v): None for '' and for a text int() rejects
int_or_none(text) == IF IsIntText(text) THEN Some(PyInt(text)) ELSE None

\* media.get('frameRate') or media.get('frame_rate', '')
RawFrameRate(media) ==
    IF Has(media, "frameRate") /\ media.frameRate # <<>> THEN media.frameRate
    ELSE IF Has(media, "frame_rate") THEN media.frame_rate
    ELSE <<>>

\* lines 143-147; [ok |-> FALSE] is an exception escaping load()
ParseFrameRate(text) ==
    IF HasSlash(text)
    THEN LET parts == Split(text)
         IN IF ~IsIntText(parts[1]) \/ ~IsIntText(parts[2])
            THEN [ok |-> FALSE, exc |-> "ValueError", fps |-> None]
            ELSE IF PyInt(parts[2]) = 0
            THEN [ok |-> FALSE, exc |-> "ZeroDivisionError", fps |-> None]
            ELSE [ok |-> TRUE, exc |-> "",
                  fps |-> Some(RoundQuotient(PyInt(parts[1]), PyInt(parts[2])))]
    ELSE [ok |-> TRUE, exc |-> "", fps |-> int_or_none(text)]


-----------------------------------------------------------------------------
(* InfoExtractor._sort_formats (common.py, not part of src/): the Candidate  *)
(* Ranker of the specification, section 4.2.  Best first; the key is the     *)
(* preference (default 0), then the resolution width*height, then the        *)
(* bitrate; equal keys keep their input order.                               *)

Preference(f) == IF Has(f, "preference") THEN f.preference ELSE 0

Resolution(f) ==
    IF Has(f, "width") /\ Has(f, "height") /\ f.width # None /\ f.height # None
    THEN f.width[1] * f.height[1] ELSE 0

Bitrate(f) ==
    IF Has(f, "vbr") /\ f.vbr # None THEN f.vbr[1].n
    ELSE IF Has(f, "abr") /\ f.abr # None THEN f.abr[1].n
    ELSE 0

\* a is ranked strictly better than b
Better(a, b) ==
    \/ Preference(a) > Preference(b)
    \/ /\ Preference(a) = Preference(b)
       /\ \/ Resolution(a) > Resolution(b)
          \/ Resolution(a) = Resolution(b) /\ Bitrate(a) > Bitrate(b)

\* x goes behind every element that is not strictly worse than it
RECURSIVE InsertRanked(_, _)
InsertRanked(sorted, x) ==
    IF sorted = <<>> THEN <<x>>
    ELSE IF Better(x, sorted[1]) THEN <<x>> \o sorted
    ELSE <<sorted[1]>> \o InsertRanked(Tail(sorted), x)

RECURSIVE SortFrom(_, _)
SortFrom(sorted, rest) ==
    IF rest = <<>> THEN sorted
    ELSE SortFrom(InsertRanked(sorted, rest[1]), Tail(rest))

sort_formats(formats) == SortFrom(<<>>, formats)

-----------------------------------------------------------------------------
(* BiliBiliIE.extract_playinfo *)

\* quality_desc = {k: v for k, v in zip(accept_quality, accept_desc)}
\* followed by quality_desc.get(id): the last pair of the zip with key id
QualityDesc(pinfo, id) ==
    LET aq == IF Has(pinfo, "accept_quality") THEN pinfo.accept_quality ELSE <<>>
        ad == IF Has(pinfo, "accept_description") THEN pinfo.accept_description ELSE <<>>
        n  == IF Len(aq) < Len(ad) THEN Len(aq) ELSE Len(ad)
        hits == {i \in 1..n : aq[i] = id}
    IN IF hits = {} THEN None
       ELSE Some(ad[CHOOSE i \in hits : \A j \in hits : j <= i])

\* url = media.get('baseUrl') or media.get('base_url')
MediaUrl(media) ==
    IF Has(media, "baseUrl") /\ media.baseUrl # <<>> THEN media.baseUrl
    ELSE IF Has(media, "base_url") THEN media.base_url
    ELSE <<>>

\* format_id = str(id) + '_' + str(codec_id) if codec_id else str(id)
\* "<id>_<codecid>" is the pair <<id, codecid>>, "<id>" is <<id>>
FormatId(media) ==
    IF Has(media, "codecid") /\ media.codecid # 0
    THEN <<media.id, media.codecid>>
    ELSE <<media.id>>

\* the dict built for one track, lines 140-169; the caller has checked
\* url and id, and that the frame rate parses
MediaFormat(pinfo, media, is_video) ==
    LET duration  == IF Has(pinfo, "timelength")
                     THEN Some([n |-> pinfo.timelength, d |-> 1000]) ELSE None
        bandwidth == IF Has(media, "bandwidth")
                     THEN Some([n |-> media.bandwidth, d |-> 1000]) ELSE None
        codec     == IF Has(media, "codecs") THEN Some(media.codecs) ELSE None
        approx    == IF bandwidth # None /\ bandwidth[1].n # 0
                        /\ duration # None /\ duration[1].n # 0
                     THEN Some([n |-> bandwidth[1].n * duration[1].n, d |-> 8000])
                     ELSE None
        common    == [url |-> MediaUrl(media),
                      ext |-> IF is_video THEN "mp4" ELSE "m4a",
                      format_id |-> FormatId(media),
                      format_note |-> QualityDesc(pinfo, media.id),
                      fps |-> ParseFrameRate(RawFrameRate(media)).fps,
                      filesize_approx |-> approx]
    IN IF is_video
       THEN [url |-> common.url, ext |-> common.ext, format_id |-> common.format_id,
             format_note |-> common.format_note, fps |-> common.fps,
             filesize_approx |-> common.filesize_approx,
             vcodec |-> codec, acodec |-> Some("none"), vbr |-> bandwidth,
             width |-> IF Has(media, "width") THEN Some(media.width) ELSE None,
             height |-> IF Has(media, "height") THEN Some(media.height) ELSE None]
       ELSE [url |-> common.url, ext |-> common.ext, format_id |-> common.format_id,
             format_note |-> common.format_note, fps |-> common.fps,
             filesize_approx |-> common.filesize_approx,
             acodec |-> codec, vcodec |-> Some("none"), abr |-> bandwidth]

\* def load(arr, is_video), appending to the formats built so far;
\* ok = FALSE when an exception escapes (the frame rate does not parse)
RECURSIVE load(_, _, _, _)
load(pinfo, arr, is_video, formats) ==
    IF arr = <<>> THEN [ok |-> TRUE, exc |-> "", formats |-> formats]
    ELSE LET media == arr[1]
         IN IF MediaUrl(media) # <<>> /\ Has(media, "id")
            THEN LET fr == ParseFrameRate(RawFrameRate(media))
                 IN IF ~fr.ok THEN [ok |-> FALSE, exc |-> fr.exc, formats |-> formats]
                    ELSE load(pinfo, Tail(arr), is_video,
                              Append(formats, MediaFormat(pinfo, media, is_video)))
            ELSE load(pinfo, Tail(arr), is_video, formats)

\* "if video and audio": both arrays present and non-empty
HasBothTracks(dash) ==
    /\ Has(dash, "video") /\ dash.video # <<>>
    /\ Has(dash, "audio") /\ dash.audio # <<>>

\* a plausible slip: one non-empty array is enough
HasSomeTrack(dash) ==
    \/ Has(dash, "video") /\ dash.video # <<>>
    \/ Has(dash, "audio") /\ dash.audio # <<>>

TracksPresent(dash) == HasBothTracks(dash)

\* The value of extract_playinfo(playinfo):
\*   [kind |-> "none"]                   returned None
\*   [kind |-> "entry", formats |-> ..]  returned {'duration', 'formats'}
\*   [kind |-> "raise", exc |-> ..]      an exception escaped
extract_playinfo(pinfo) ==
    IF ~Has(pinfo, "dash") THEN [kind |-> "none"]
    ELSE LET dash == pinfo.dash
             vid  == IF TracksPresent(dash)
                     THEN load(pinfo, IF Has(dash, "video") THEN dash.video ELSE <<>>,
                               TRUE, <<>>)
                     ELSE [ok |-> TRUE, exc |-> "", formats |-> <<>>]
             aud  == IF TracksPresent(dash) /\ vid.ok
                     THEN load(pinfo, IF Has(dash, "audio") THEN dash.audio ELSE <<>>,
                               FALSE, vid.formats)
                     ELSE vid
         IN IF ~aud.ok THEN [kind |-> "raise", exc |-> aud.exc]
            ELSE IF aud.formats = <<>> THEN [kind |-> "none"]
            ELSE [kind |-> "entry",
                  duration |-> IF Has(pinfo, "timelength")
                               THEN Some([n |-> pinfo.timelength, d |-> 1000]) ELSE None,
                  formats |-> sort_formats(aud.formats)]


-----------------------------------------------------------------------------
(* BiliBiliIE._real_extract: values *)

\* the content id matched from the URL, and the page URL
video_id == "1074402"
PageUrl == <<"www.bilibili.com", "video", "av1074402">>

\* RENDITIONS = ('qn=80&quality=80&type=', 'quality=2&type=mp4')
RENDITIONS == <<"qn=80&quality=80&type=", "quality=2&type=mp4">>

\* _report_error(result): the ExtractorError it raises
report_error(d) ==
    IF Has(d, "message")
    THEN [how |-> "said", message |-> Some(d.message), code |-> None, cause |-> None]
    ELSE IF Has(d, "code")
    THEN [how |-> "returns error", message |-> None, code |-> Some(d.code), cause |-> None]
    ELSE [how |-> "Can't extract Bangumi episode ID",
          message |-> None, code |-> None, cause |-> None]

\* the ExtractorError of a fatal _download_json whose request failed
TransportError(cause) ==
    [how |-> "transport", message |-> None, code |-> None, cause |-> Some(cause)]

\* the error of a fatal _html_search_regex / _search_regex that finds nothing
RegexNotFound(what) ==
    [how |-> "Unable to extract", message |-> None, code |-> None, cause |-> Some(what)]

Raise(e) == [kind |-> "error", error |-> e]
Crash(exc) == [kind |-> "crash", exc |-> exc]

\* 'hd.mp4' in backup_url: the six characters somewhere in the URL's text
ContainsHdMp4(u) == \E i \in 1..(Len(u) - 5) : SubSeq(u, i, i + 5) = "hd.mp4"

\* a plausible slip: the two tiers exchanged
BackupPreferenceSwapped(u) == IF ContainsHdMp4(u) THEN -3 ELSE -2

\* 'preference': -2 if 'hd.mp4' in backup_url else -3
BackupPreference(u) == IF ContainsHdMp4(u) THEN -2 ELSE -3

\* lines 247-263: the candidate list of one 'durl' element
DurlFormats(durl) ==
    LET headers == [Referer |-> PageUrl]
        primary == [url |-> durl.url, filesize |-> Some(durl.size),
                    http_headers |-> headers]
        backups == IF Has(durl, "backup_url") THEN durl.backup_url ELSE <<>>
        rest    == [i \in 1..Len(backups) |->
                       [url |-> backups[i], preference |-> BackupPreference(backups[i]),
                        http_headers |-> headers]]
    IN sort_formats(<<primary>> \o rest)

\* an id is the list of the pieces its text is formatted from:
\* 'id': video_id
PlainId(vid) == <<vid>>

\* 'id': '%s_part%s' % (video_id, idx)
PartId(vid, idx) == <<vid, "_part", idx>>

\* lines 246-269: one entry per 'durl' element, idx from 0
LegacyEntries(durls) ==
    [i \in 1..Len(durls) |->
        [id |-> PartId(video_id, i - 1),
         duration |-> IF Has(durls[i], "length")
                      THEN Some([n |-> durls[i].length, d |-> 1000]) ELSE None,
         formats |-> DurlFormats(durls[i])]]

\* "not video_info": False, None, or an empty JSON object
Falsy(resp) ==
    \/ resp.kind \in {"fail", "null"}
    \/ resp.kind = "dict" /\ DOMAIN resp.dict = {}
    \/ resp.kind = "array" /\ resp.items = <<>>
    \/ resp.kind = "number" /\ resp.n = 0
    \/ resp.kind = "bool" /\ ~resp.b
    \/ resp.kind = "string" /\ resp.s = ""

\* "key in value" can be evaluated: the value is an object, an array or a
\* string (a number or a boolean raises TypeError)
Iterable(resp) == resp.kind \in {"dict", "array", "string"}

\* key in value, for an object (its keys), an array (its elements) or a
\* string (its substrings)
In(key, resp) ==
    IF resp.kind = "dict" THEN Has(resp.dict, key)
    ELSE IF resp.kind = "array" THEN \E k \in 1..Len(resp.items) : resp.items[k] = key
    ELSE \E k \in 1..(Len(resp.s) - Len(key) + 1) :
            SubSeq(resp.s, k, k + Len(key) - 1) = key

\* _report_error(video_info) of line 244: the error it raises; on an array or
\* a string that holds the key, result[key] is a TypeError
ReportError(resp) ==
    IF resp.kind = "dict" THEN Raise(report_error(resp.dict))
    ELSE IF In("message", resp) \/ In("code", resp) THEN Crash("TypeError")
    ELSE Raise(report_error(<<>>))


-----------------------------------------------------------------------------
(* What the provider may answer *)

Causes == {"e1", "e2"}
Messages == {"m1", "m2"}
Codes == {-404, -403}

\* JSON objects without 'durl'
ErrorDicts ==
    {<<>>} \cup {[message |-> m] : m \in Messages} \cup {[code |-> c] : c \in Codes}
           \cup {[message |-> "m1", code |-> -404]}

\* elements of a 'durl' array
DurlParts ==
    { [url |-> "cdn/a.flv", size |-> 100],
      [url |-> "cdn/b.flv", size |-> 200, length |-> 5000,
       backup_url |-> <<"bak/b.mp4", "bak/video-hd.mp4?x=1">>] }

DurlDicts ==
    {[durl |-> ds] : ds \in SeqsUpTo(DurlParts, MaxParts)}
    \cup {[durl |-> ds, timelength |-> 3000] : ds \in SeqsUpTo(DurlParts, MaxParts)}

\* JSON values that are no object and not null: arrays of strings, numbers,
\* booleans, strings
OtherJson ==
    { [kind |-> "array", items |-> <<>>], [kind |-> "array", items |-> <<"x">>],
      [kind |-> "number", n |-> 0], [kind |-> "number", n |-> 5],
      [kind |-> "bool", b |-> FALSE], [kind |-> "string", s |-> ""] }

\* what one legacy _download_json can come to: a failed request or invalid
\* JSON ("fail": it raises when fatal, returns False otherwise), the JSON
\* value null ("null"), a JSON object ("dict"), or another JSON value
Responses ==
    {[kind |-> "fail", cause |-> c] : c \in Causes}
    \cup {[kind |-> "null"]}
    \cup {[kind |-> "dict", dict |-> d] : d \in ErrorDicts \cup DurlDicts}
    \cup OtherJson

\* tracks of a DASH payload
Track(i, c) ==
    [id |-> i, codecid |-> c, baseUrl |-> <<"dash", i, c>>, bandwidth |-> 10 * i,
     codecs |-> "codec", frameRate |-> Text("25"), width |-> 16 * i, height |-> 9 * i]

AudioTrack(i) == [id |-> i, base_url |-> <<"dash", i, 0>>, bandwidth |-> i]

\* the page's playinfo 'data' as the resolver meets it
MainPlayinfos ==
    { <<>>,
      [timelength |-> 3000],
      [dash |-> [video |-> <<Track(80, 7)>>]],
      [dash |-> [audio |-> <<AudioTrack(30280)>>]],
      [dash |-> [video |-> <<>>, audio |-> <<AudioTrack(30280)>>]],
      [dash |-> [video |-> <<[id |-> 80, codecid |-> 7]>>,
                 audio |-> <<[base_url |-> <<"dash", 0, 0>>]>>]],
      [dash |-> [video |-> <<Track(80, 7)>>, audio |-> <<AudioTrack(30280)>>]],
      [dash |-> [video |-> <<Track(32, 7), Track(80, 12)>>,
                 audio |-> <<AudioTrack(30280)>>],
       timelength |-> 3000, accept_quality |-> <<80, 32>>,
       accept_description |-> <<"1080P", "480P">>],
      [dash |-> [video |-> <<[id |-> 80, baseUrl |-> <<"dash", 80, 0>>,
                              frameRate |-> Text("1/0")]>>,
                 audio |-> <<AudioTrack(30280)>>]] }

-----------------------------------------------------------------------------
(* BiliBiliIE._real_extract: steps *)

Idle == [fn |-> "none"]
Pending == [kind |-> "pending"]

Init ==
    /\ pc = "start"
    /\ num = 0
    /\ video_info = [kind |-> "unset"]
    /\ entries = <<>>
    /\ playinfo = <<>>
    /\ playinfo_entry = [kind |-> "unset"]
    /\ fetched = <<>>
    /\ result = Pending
    /\ call = Idle
    /\ ret = Pending
    /\ NoChannel

\* lines 189-192: the page is downloaded (fatal) and its playinfo read
DownloadWebpage ==
    /\ pc = "start"
    /\ \/ \E c \in Causes :
             /\ result' = Raise(TransportError(c))
             /\ pc' = "done"
             /\ UNCHANGED playinfo
       \/ \E p \in MainPlayinfos :
             /\ playinfo' = p
             /\ pc' = "cid"
             /\ UNCHANGED result
    /\ UNCHANGED <<num, video_info, entries, playinfo_entry, fetched, call, ret>>
    /\ UNCHANGED chan

\* answers of bangumi.bilibili.com/web_api/get_source
SourceAnswers ==
    {[kind |-> "fail", cause |-> "e1"]}
    \cup {[kind |-> "dict", dict |-> d] : d \in ErrorDicts \cup {[result |-> [cid |-> 1]]}}

\* lines 194-219: the cid, from the page or (anime URLs) from get_source
ResolveCid ==
    /\ pc = "cid"
    /\ \/ \E found \in BOOLEAN :
             IF found THEN pc' = "legacy" /\ num' = 1 /\ UNCHANGED result
             ELSE /\ result' = Raise(RegexNotFound("player parameters"))
                  /\ pc' = "done" /\ UNCHANGED num
       \/ \E js \in SourceAnswers :
             IF js.kind = "fail"
             THEN result' = Raise(TransportError(js.cause)) /\ pc' = "done" /\ UNCHANGED num
             ELSE IF ~Has(js.dict, "result")
             THEN result' = Raise(report_error(js.dict)) /\ pc' = "done" /\ UNCHANGED num
             ELSE pc' = "legacy" /\ num' = 1 /\ UNCHANGED result
    /\ UNCHANGED <<video_info, entries, playinfo, playinfo_entry, fetched, call, ret>>
    /\ UNCHANGED chan

\* where the loop goes on "continue": to the next rendition, or, after the
\* last one, out of the loop with num as it is
Continue ==
    /\ num' = IF num < Len(RENDITIONS) THEN num + 1 ELSE num
    /\ pc' = IF num < Len(RENDITIONS) THEN "legacy" ELSE "playinfo"
    /\ UNCHANGED <<entries, result>>

\* a plausible slip: no "break", the loop goes on to the next rendition
AfterDurlNoBreak(n) ==
    [pc |-> IF n < Len(RENDITIONS) THEN "legacy" ELSE "playinfo", num |-> n + 1]

\* line 270: "break" leaves the loop once the entries of a 'durl' are built
AfterDurl(n) == [pc |-> "playinfo", num |-> n]

\* lines 229-270: one iteration of "for num, rendition in enumerate(RENDITIONS, 1)"
FetchRendition ==
    /\ pc = "legacy"
    /\ num <= Len(RENDITIONS)
    /\ \E resp \in Responses :
          /\ fetched' = Append(fetched, resp)
          /\ IF resp.kind = "fail" /\ num = Len(RENDITIONS)
             THEN \* fatal=True: _download_json raises
                  /\ result' = Raise(TransportError(resp.cause))
                  /\ pc' = "done"
                  /\ UNCHANGED <<num, video_info, entries>>
             ELSE /\ video_info' = resp
                  /\ IF Falsy(resp) THEN Continue
                     ELSE IF ~Iterable(resp)
                     THEN \* line 241: 'durl' not in a number
                          /\ result' = Crash("TypeError")
                          /\ pc' = "done"
                          /\ UNCHANGED <<num, entries>>
                     ELSE IF ~In("durl", resp)
                     THEN IF num < Len(RENDITIONS) THEN Continue
                          ELSE /\ result' = ReportError(resp)
                               /\ pc' = "done"
                               /\ UNCHANGED <<num, entries>>
                     ELSE IF resp.kind # "dict"
                     THEN \* line 246: video_info['durl'] on an array or a string
                          /\ result' = Crash("TypeError")
                          /\ pc' = "done"
                          /\ UNCHANGED <<num, entries>>
                     ELSE /\ entries' = entries \o LegacyEntries(resp.dict.durl)
                          /\ pc' = AfterDurl(num).pc
                          /\ num' = AfterDurl(num).num
                          /\ UNCHANGED result
    /\ UNCHANGED <<playinfo, playinfo_entry, call, ret>>
    /\ UNCHANGED chan

\* line 272: playinfo_entry = self.extract_playinfo(playinfo)
ExtractPlayinfo ==
    /\ pc = "playinfo"
    /\ LET pe == extract_playinfo(playinfo)
       IN /\ playinfo_entry' = pe
          /\ IF pe.kind = "raise"
             THEN result' = Crash(pe.exc) /\ pc' = "done"
             ELSE pc' = "merge" /\ UNCHANGED result
    /\ UNCHANGED <<num, video_info, entries, playinfo, fetched, call, ret>>
    /\ UNCHANGED chan

\* a plausible slip: the DASH candidates go into the last entry
MergedIntoLast(es, pe) ==
    IF pe.kind # "entry" THEN es
    ELSE IF es # <<>>
    THEN [es EXCEPT ![Len(es)].formats = @ \o pe.formats]
    ELSE <<[id |-> PlainId(video_id), duration |-> pe.duration, formats |-> pe.formats]>>

\* lines 273-278
Merged(es, pe) ==
    IF pe.kind # "entry" THEN es
    ELSE IF es # <<>>
    THEN [es EXCEPT ![1].formats = @ \o pe.formats]
    ELSE <<[id |-> PlainId(video_id), duration |-> pe.duration, formats |-> pe.formats]>>

\* lines 277-278: without legacy entries playinfo_entry is given the id and
\* is itself the entry appended: from here on it is entries[0]
MergedPlayinfoEntry(es, pe) ==
    IF pe.kind = "entry" /\ es = <<>>
    THEN [kind |-> "entry", id |-> PlainId(video_id), duration |-> pe.duration,
          formats |-> pe.formats]
    ELSE pe

MergePlayinfo ==
    /\ pc = "merge"
    /\ entries' = Merged(entries, playinfo_entry)
    /\ playinfo_entry' = MergedPlayinfoEntry(entries, playinfo_entry)
    /\ pc' = "compose"
    /\ UNCHANGED <<num, video_info, playinfo, fetched, result, call, ret>>
    /\ UNCHANGED chan

Titles == {"title"}

\* a plausible slip: the ids stay 0-based, as the loop first assigned them
PartNumberZeroBased(idx) == idx - 1

\* (idx + 1) of line 320, for the 1-based position idx of a sequence
PartNumber(idx) == idx

\* lines 313-314: entry.update(info) on every entry
Updated(es, info) ==
    [i \in 1..Len(es) |->
        [id |-> info.id, title |-> info.title,
         duration |-> info.duration, formats |-> es[i].formats]]

\* lines 313-320: the entries as the call leaves them: updated, and with two
\* or more (or none) renumbered as parts
Rewritten(es, info) ==
    IF Len(es) = 1 THEN Updated(es, info)
    ELSE [i \in 1..Len(es) |->
             [Updated(es, info)[i] EXCEPT !.id = PartId(video_id, PartNumber(i))]]

\* lines 313-328: the shared metadata goes into every entry, then the shape
Composed(es, info) ==
    IF Len(es) = 1
    THEN [kind |-> "entry", entry |-> Rewritten(es, info)[1]]
    ELSE [kind |-> "multi_video", id |-> PlainId(video_id), title |-> info.title,
          entries |-> Rewritten(es, info)]

\* lines 292-299
Info(t) ==
    [id |-> PlainId(video_id), title |-> t,
     duration |-> IF Has(video_info.dict, "timelength")
                  THEN Some([n |-> video_info.dict.timelength, d |-> 1000])
                  ELSE None]

\* lines 280-328; the entries are rewritten in place, and playinfo_entry
\* with them when it is entries[0] (it then has the 'id' of line 277)
Compose ==
    /\ pc = "compose"
    /\ \/ /\ result' = Raise(RegexNotFound("title"))
          /\ UNCHANGED <<entries, playinfo_entry>>
       \/ \E t \in Titles :
             IF video_info.kind # "dict"
             THEN \* line 298: video_info.get on None, False, a list, ..
                  /\ result' = Crash("AttributeError")
                  /\ UNCHANGED <<entries, playinfo_entry>>
             ELSE /\ result' = Composed(entries, Info(t))
                  /\ entries' = Rewritten(entries, Info(t))
                  /\ playinfo_entry' =
                        IF Has(playinfo_entry, "id")
                        THEN [kind |-> "entry", id |-> Rewritten(entries, Info(t))[1].id,
                              title |-> t, duration |-> Info(t).duration,
                              formats |-> playinfo_entry.formats]
                        ELSE playinfo_entry
    /\ pc' = "done"
    /\ UNCHANGED <<num, video_info, playinfo, fetched, call, ret>>
    /\ UNCHANGED chan

Next ==
    \/ DownloadWebpage
    \/ ResolveCid
    \/ FetchRendition
    \/ ExtractPlayinfo
    \/ MergePlayinfo
    \/ Compose

Spec == Init /\ [][Next]_vars


-----------------------------------------------------------------------------
(* Vocabulary of the properties of BiliBiliIE._real_extract *)

Returned == pc = "done" /\ result.kind \in {"entry", "multi_video"}

\* the entries of a returned result, a single entry being a list of one
ResultEntries == IF result.kind = "entry" THEN <<result.entry>> ELSE result.entries

\* the response holds a 'durl' payload
HasDurl(resp) == resp.kind = "dict" /\ "durl" \in DOMAIN resp.dict

\* the response holds a 'durl' payload with at least one part
UsableDurl(resp) == HasDurl(resp) /\ Len(resp.dict.durl) >= 1

\* the rendition loop is over, however it ended
LoopOver == pc \notin {"start", "cid", "legacy"} /\ Len(fetched) >= 1

\* no rendition fetched so far yielded a part
LegacyNothing == \A i \in 1..Len(fetched) : ~UsableDurl(fetched[i])

\* the parts the legacy path produced (the loop stops at the first 'durl')
LegacyParts ==
    IF Len(fetched) >= 1 /\ HasDurl(fetched[Len(fetched)])
    THEN fetched[Len(fetched)].dict.durl ELSE <<>>

\* the failure detail of a response that failed: the transport error, or
\* the provider's message, else its code
FailureDetail(resp) ==
    IF resp.kind = "fail"
    THEN [how |-> "transport", message |-> None, code |-> None, cause |-> Some(resp.cause)]
    ELSE IF resp.kind = "dict" /\ "message" \in DOMAIN resp.dict
    THEN [how |-> "said", message |-> Some(resp.dict.message), code |-> None, cause |-> None]
    ELSE IF resp.kind = "dict" /\ "code" \in DOMAIN resp.dict
    THEN [how |-> "returns error", message |-> None, code |-> Some(resp.dict.code),
          cause |-> None]
    ELSE [how |-> "Can't extract Bangumi episode ID", message |-> None, code |-> None,
          cause |-> None]

-----------------------------------------------------------------------------
(* C1: every returned result is either the single resolved entry itself,    *)
(* carrying the content id, or, for N >= 2 resolved entries, a multi_video   *)
(* whose entries keep their order and carry the pairwise distinct ids        *)
(* <id>_part1 .. <id>_partN.                                                 *)
C1_CompositeShape ==
    Returned =>
        /\ Len(entries) = 1 =>
              /\ result.kind = "entry"
              /\ result.entry.id = <<video_id>>
              /\ result.entry = entries[1]
        /\ Len(entries) >= 2 =>
              /\ result.kind = "multi_video"
              /\ Len(result.entries) = Len(entries)
              /\ \A i \in 1..Len(entries) :
                    /\ result.entries[i].id = <<video_id, "_part", i>>
                    /\ result.entries[i] = entries[i]
              /\ \A i, j \in 1..Len(entries) :
                    i # j => result.entries[i].id # result.entries[j].id

C1_Witness ==
    /\ Returned
    /\ result.kind = "multi_video"
    /\ Len(result.entries) = 2
    /\ result.entries[2].id = <<video_id, "_part", 2>>
    /\ result.entries[1].formats # result.entries[2].formats

(* C2 as claimed: once rendition 1 has failed, rendition 2 is fetched, and   *)
(* when rendition 2 has failed as well (a transport error or a response      *)
(* without 'durl') the call has ended in an error carrying rendition 2's     *)
(* failure detail.                                                           *)
C2_LastRenditionFatal ==
    /\ (LoopOver /\ fetched[1].kind \in {"fail", "dict"} /\ ~HasDurl(fetched[1])) =>
          Len(fetched) = 2
    /\ (Len(fetched) = 2 /\ fetched[2].kind \in {"fail", "dict"} /\ ~HasDurl(fetched[2])) =>
          /\ pc = "done"
          /\ result.kind = "error"
          /\ result.error = FailureDetail(fetched[2])

(* C3: with n >= 1 legacy parts and m >= 1 DASH candidates a returned result *)
(* has n entries, the first holding the legacy candidates of part 0 followed *)
(* by the m DASH candidates, every other one its own legacy candidates.      *)
C3_MergeAsymmetry ==
    (Returned /\ Len(LegacyParts) >= 1 /\ playinfo_entry.kind = "entry") =>
        LET n == Len(LegacyParts)
            legacy == LegacyEntries(LegacyParts)
            dash == playinfo_entry.formats
        IN /\ Len(dash) >= 1
           /\ Len(ResultEntries) = n
           /\ ResultEntries[1].formats = legacy[1].formats \o dash
           /\ Len(ResultEntries[1].formats) = Len(legacy[1].formats) + Len(dash)
           /\ \A i \in 2..n : ResultEntries[i].formats = legacy[i].formats

C3_Witness ==
    /\ Returned
    /\ Len(LegacyParts) = 2
    /\ playinfo_entry.kind = "entry"
    /\ Len(playinfo_entry.formats) = 3
    /\ result.kind = "multi_video"
    /\ Len(result.entries[1].formats) = 4
    /\ Len(result.entries[2].formats) = 3

(* C4 as claimed, for the calls in which the rendition loop ended without   *)
(* an error and the page has a title (the last-rendition rule and the fatal  *)
(* title search set aside): when the loop is over without any part and the   *)
(* page's DASH payload has yielded a candidate, the call returns the DASH     *)
(* entry alone, under the content id.                                        *)
C4_DashBecomesSole ==
    (pc = "done" /\ LoopOver /\ LegacyNothing /\ result.kind # "error"
        /\ playinfo_entry.kind = "entry") =>
        /\ result.kind = "entry"
        /\ result.entry.id = <<video_id>>
        /\ result.entry.formats = extract_playinfo(playinfo).formats

(* C5 as claimed, for the calls that reached the DASH path and did not       *)
(* crash: with no legacy part and no DASH candidate the call ends in an      *)
(* error, and no returned result is without entries or holds an entry        *)
(* without candidates.                                                       *)
C5_NeverEmptyResult ==
    /\ (pc = "done" /\ LoopOver /\ LegacyNothing /\ result.kind # "crash"
           /\ playinfo_entry.kind = "none") => result.kind = "error"
    /\ Returned =>
          /\ Len(ResultEntries) >= 1
          /\ \A i \in 1..Len(ResultEntries) : Len(ResultEntries[i].formats) >= 1


\* the URLs of the legacy candidates of an entry (DASH candidates carry no
\* request headers)
LegacyUrls(e) ==
    {e.formats[k].url : k \in {x \in 1..Len(e.formats) : "http_headers" \in DOMAIN e.formats[x]}}

\* the URLs of one 'durl' element
PartUrls(d) ==
    {d.url} \cup (IF "backup_url" \in DOMAIN d
                  THEN {d.backup_url[k] : k \in 1..Len(d.backup_url)} ELSE {})

(* C11: the rendition loop stops at the first response holding 'durl': no    *)
(* rendition is fetched after it, and the legacy entries, before the merge   *)
(* and in a returned result, are those of that one response, one per 'durl'  *)
(* element and in payload order.                                             *)
C11_StopsAtFirstDurl ==
    /\ \A k \in 1..(Len(fetched) - 1) : ~HasDurl(fetched[k])
    /\ pc \in {"playinfo", "merge"} =>
          /\ Len(entries) = Len(LegacyParts)
          /\ \A k \in 1..Len(entries) :
                /\ entries[k].id = <<video_id, "_part", k - 1>>
                /\ LegacyUrls(entries[k]) = PartUrls(LegacyParts[k])
    /\ (Returned /\ Len(LegacyParts) >= 1) =>
          /\ Len(ResultEntries) = Len(LegacyParts)
          /\ \A k \in 1..Len(ResultEntries) :
                LegacyUrls(ResultEntries[k]) = PartUrls(LegacyParts[k])

C11_Witness ==
    /\ Returned
    /\ Len(fetched) = 1
    /\ Len(LegacyParts) = 2
    /\ LegacyParts[1].url # LegacyParts[2].url
    /\ result.kind = "multi_video"
    /\ Len(result.entries) = 2
    /\ LegacyUrls(result.entries[2]) = PartUrls(LegacyParts[2])

-----------------------------------------------------------------------------
(* extract_playinfo and the merge of its result, on a wider set of DASH      *)
(* payloads.  The initial states are states of _real_extract at line 272.    *)

TrackInputs ==
    {[id |-> i, baseUrl |-> <<"dash", i>>, bandwidth |-> 10 * i] : i \in {32, 80}}
    \cup {[id |-> i, codecid |-> 7, base_url |-> <<"dash", i, 7>>, bandwidth |-> 10 * i,
           frameRate |-> Text("25"), width |-> 16 * i, height |-> 9 * i] : i \in {32, 80}}
    \cup { [id |-> 80, codecid |-> 0, baseUrl |-> <<"dash", 80, 0>>],
           [codecid |-> 7, baseUrl |-> <<"dash", 0, 7>>],
           [id |-> 80, codecid |-> 7] }

DashInputs ==
    LET vs == SeqsUpTo(TrackInputs, MaxVideo)
        as == SeqsUpTo(TrackInputs, MaxAudio)
    IN {[video |-> v, audio |-> a] : v \in vs, a \in as}
       \cup {[video |-> v] : v \in vs} \cup {[audio |-> a] : a \in as} \cup {<<>>}

PlayinfoInputs ==
    {<<>>, [timelength |-> 3000]}
    \cup {[dash |-> d, timelength |-> 3000, accept_quality |-> <<80, 32, 80>>,
           accept_description |-> <<"1080P", "480P", "HD">>] : d \in DashInputs}

\* how the rendition loop may have ended
LoopEnds ==
    { <<[kind |-> "dict", dict |-> [durl |-> ds]]>> :
         ds \in {x \in SeqsUpTo(DurlParts, 2) :
                    Len(x) = 1 \/ (Len(x) = 2 /\ x[1] # x[2] /\ Has(x[2], "backup_url"))} }
    \cup { <<[kind |-> "fail", cause |-> "e1"], [kind |-> "dict", dict |-> <<>>]>> }

InitPlayinfo ==
    /\ pc = "playinfo"
    /\ fetched \in LoopEnds
    /\ video_info = fetched[Len(fetched)]
    /\ num = Len(fetched)
    /\ entries = LegacyEntries(LegacyParts)
    /\ playinfo \in PlayinfoInputs
    /\ playinfo_entry = [kind |-> "unset"]
    /\ result = Pending
    /\ call = Idle
    /\ ret = Pending
    /\ NoChannel

NextPlayinfo ==
    \/ ExtractPlayinfo
    \/ MergePlayinfo

SpecPlayinfo == InitPlayinfo /\ [][NextPlayinfo]_vars

(* C8 as claimed: the candidates of one extract_playinfo call have pairwise  *)
(* distinct format_id values.                                                *)
C8_FormatIdsDistinct ==
    playinfo_entry.kind = "entry" =>
        \A i, j \in 1..Len(playinfo_entry.formats) :
            i # j => playinfo_entry.formats[i].format_id # playinfo_entry.formats[j].format_id

\* exactly one of the two track arrays is a key of the 'dash' object
OnlyOneArray(p) ==
    /\ "dash" \in DOMAIN p
    /\ ("video" \in DOMAIN p.dash) # ("audio" \in DOMAIN p.dash)

(* C9: extract_playinfo yields candidates only for a payload whose 'video'   *)
(* and 'audio' arrays are both present and non-empty; without 'dash', or     *)
(* with only one of the arrays, it returns None, and on None the caller      *)
(* leaves the legacy entries as they are and raises nothing.                 *)
C9_BothTracksRequired ==
    /\ playinfo_entry.kind = "entry" =>
          /\ "dash" \in DOMAIN playinfo
          /\ "video" \in DOMAIN playinfo.dash /\ Len(playinfo.dash.video) >= 1
          /\ "audio" \in DOMAIN playinfo.dash /\ Len(playinfo.dash.audio) >= 1
          /\ Len(playinfo_entry.formats) >= 1
    /\ (playinfo_entry.kind # "unset"
           /\ ("dash" \notin DOMAIN playinfo \/ OnlyOneArray(playinfo))) =>
          playinfo_entry.kind = "none"
    /\ (pc = "compose" /\ playinfo_entry.kind = "none") =>
          /\ entries = LegacyEntries(LegacyParts)
          /\ result = Pending

C9_Witness ==
    /\ pc = "compose"
    /\ OnlyOneArray(playinfo)
    /\ "video" \in DOMAIN playinfo.dash
    /\ Len(playinfo.dash.video) = 2
    /\ \A i \in 1..2 : /\ "id" \in DOMAIN playinfo.dash.video[i]
                       /\ "base_url" \in DOMAIN playinfo.dash.video[i]
    /\ playinfo_entry.kind = "none"
    /\ Len(entries) = 2
    /\ result = Pending

-----------------------------------------------------------------------------
(* The frame rate of one track, lines 142-147 *)

FpsN == (0..MaxFrameRate) \cup {24000, 30000, 60000}
FpsD == {0, 1, 2, 3, 4, 1001}

\* texts int() reads although they are more than ASCII digits, and near misses
SignedAndSpacedTexts ==
    { Text("-30/1"), Text("30/-1"), Text("-5/-2"),
      Text("-5/2"), Text("-7/2"),
      Text(" 30/1"), Text("30/ 1"), Text("30 /1") \o <<10>>,
      Text("1_0/1"), Text("+24"), Text("-1"), Text(" 24"),
      Text("24 "), <<9>> \o Text("24"), Text("1_0"), Text("007"), Text("-0"),
      Text("1__0"), Text("_1"), Text("1_"), Text("+"), Text("- 5"),
      Text("+-5"), Text("2 4"), Text(" "), Text("-30/0"),
      Text("3_/1"),
      <<11>> \o Text("30/1"), Text("30/") \o <<11, 49>>, Text("24") \o <<11>>,
      <<160>> \o Text("24"), <<12288>> \o Text("30/1") \o <<133>>,
      <<65298, 65300>>, <<1635>>, <<1633, 50, 47, 65298>>,
      <<28>> \o Text("24"), <<8722>> \o Text("5"), <<65291>> \o Text("5") }

FrameRateTexts ==
    {Decimal(n) : n \in FpsN}
    \cup {Decimal(n) \o Text("/") \o Decimal(d) : n \in FpsN, d \in FpsD}
    \cup { <<>>, Text("abc"), Text("/5"), Text("5/"), Text("25.0"),
           Text("60/2/0") }
    \cup SignedAndSpacedTexts

FrameRateMedia ==
    {<<>>} \cup {[frameRate |-> t] : t \in FrameRateTexts}
           \cup {[frame_rate |-> t] : t \in FrameRateTexts}
           \cup {[frameRate |-> <<>>, frame_rate |-> Text("24")]}

InitFrameRate ==
    /\ pc = "idle" /\ num = 0 /\ video_info = [kind |-> "unset"] /\ entries = <<>>
    /\ playinfo = <<>> /\ playinfo_entry = [kind |-> "unset"] /\ fetched = <<>>
    /\ result = Pending
    /\ \E m \in FrameRateMedia : call = [fn |-> "frame_rate", media |-> m]
    /\ ret = Pending
    /\ NoChannel

LoadFrameRate ==
    /\ call.fn = "frame_rate"
    /\ ret = Pending
    /\ ret' = ParseFrameRate(RawFrameRate(call.media))
    /\ UNCHANGED <<pc, num, video_info, entries, playinfo, playinfo_entry, fetched,
                   result, call>>
    /\ UNCHANGED chan

NextFrameRate == LoadFrameRate

SpecFrameRate == InitFrameRate /\ [][NextFrameRate]_vars

\* the frame-rate text of the track given to load()
GivenText ==
    IF "frameRate" \in DOMAIN call.media /\ call.media.frameRate # <<>>
    THEN call.media.frameRate
    ELSE IF "frame_rate" \in DOMAIN call.media THEN call.media.frame_rate
    ELSE <<>>

Abs(x) == IF x < 0 THEN -x ELSE x

(* C10: 'n/d' parses to the integer nearest to n/d ('30000/1001' to 30), a   *)
(* plain integer text to that integer ('24' to 24), an empty or absent       *)
(* value to None.                                                            *)
C10_FrameRateParsing ==
    ret # Pending =>
        /\ \A n \in FpsN, d \in FpsD \ {0} :
              GivenText = Decimal(n) \o Text("/") \o Decimal(d) =>
                 /\ ret.ok
                 /\ Len(ret.fps) = 1
                 /\ 2 * Abs(n - ret.fps[1] * d) <= d
        /\ \A n \in FpsN : GivenText = Decimal(n) => ret.ok /\ ret.fps = <<n>>
        /\ GivenText = Text("30000/1001") => ret.fps = <<30>>
        /\ GivenText = Text("24") => ret.fps = <<24>>
        /\ GivenText = Text("+24") => ret.ok /\ ret.fps = <<24>>
        /\ GivenText = Text(" 24") => ret.ok /\ ret.fps = <<24>>
        /\ GivenText = Text("-1") => ret.ok /\ ret.fps = <<-1>>
        /\ GivenText = Text("-30/1") => ret.ok /\ ret.fps = <<-30>>
        /\ GivenText = Text("30/ 1") => ret.ok /\ ret.fps = <<30>>
        /\ GivenText = Text("1_0/1") => ret.ok /\ ret.fps = <<10>>
        /\ GivenText = <<>> => ret.ok /\ ret.fps = <<>>

C10_Witness ==
    /\ ret # Pending
    /\ call.media = [frameRate |-> Text("30000/1001")]
    /\ ret.ok
    /\ ret.fps = <<30>>


-----------------------------------------------------------------------------
(* The candidate list of one 'durl' element, lines 247-263 *)

PrimaryUrls == {"cdn/a.flv", "cdn/hd.mp4"}

BackupUrls ==
    {"bak1/hd.mp4", "bak2/video-hd.mp4?x=1", "bak.hd.mp4.example/b.flv",
     "bak1/b.mp4", "bak2/hd-mp4.flv"}

DurlInputs ==
    {[url |-> u, size |-> 100] : u \in PrimaryUrls}
    \cup {[url |-> u, size |-> 100, backup_url |-> b] :
             u \in PrimaryUrls, b \in SeqsUpTo(BackupUrls, MaxBackups)}

InitDurl ==
    /\ pc = "idle" /\ num = 0 /\ video_info = [kind |-> "unset"] /\ entries = <<>>
    /\ playinfo = <<>> /\ playinfo_entry = [kind |-> "unset"] /\ fetched = <<>>
    /\ result = Pending
    /\ \E d \in DurlInputs : call = [fn |-> "durl_formats", durl |-> d]
    /\ ret = Pending
    /\ NoChannel

BuildDurlFormats ==
    /\ call.fn = "durl_formats"
    /\ ret = Pending
    /\ ret' = [kind |-> "formats", formats |-> DurlFormats(call.durl)]
    /\ UNCHANGED <<pc, num, video_info, entries, playinfo, playinfo_entry, fetched,
                   result, call>>
    /\ UNCHANGED chan

NextDurl == BuildDurlFormats

SpecDurl == InitDurl /\ [][NextDurl]_vars

IsBackup(f) == "preference" \in DOMAIN f

\* the candidate's URL has the text 'hd.mp4' in it
IsHd(f) ==
    \E i, j \in 1..Len(f.url) : j = i + 5 /\ SubSeq(f.url, i, j) = "hd.mp4"

(* C7: in the candidate list of one 'durl' part, whatever the order of       *)
(* backup_url, the primary URL ranks above every backup, and every backup    *)
(* containing 'hd.mp4' (preference -2) above every other backup (-3).        *)
C7_BackupPreference ==
    ret # Pending =>
        LET fs == ret.formats
            given == IF "backup_url" \in DOMAIN call.durl THEN call.durl.backup_url ELSE <<>>
        IN /\ Len(fs) = 1 + Len(given)
           /\ \A i, j \in 1..Len(fs) :
                 /\ (~IsBackup(fs[i]) /\ IsBackup(fs[j])) => i < j
                 /\ (IsBackup(fs[i]) /\ IsBackup(fs[j]) /\ IsHd(fs[i]) /\ ~IsHd(fs[j])) =>
                       /\ i < j
                       /\ fs[i].preference = -2
                       /\ fs[j].preference = -3
           /\ \A i \in 1..Len(fs) : ~IsBackup(fs[i]) => fs[i].url = call.durl.url

C7_Witness ==
    /\ ret # Pending
    /\ "backup_url" \in DOMAIN call.durl
    /\ call.durl.backup_url = <<"bak1/b.mp4", "bak2/video-hd.mp4?x=1", "bak2/hd-mp4.flv">>
    /\ ret.formats[1].url = call.durl.url
    /\ ret.formats[2].url = "bak2/video-hd.mp4?x=1"
    /\ ret.formats[2].preference = -2
    /\ ret.formats[3].url = "bak1/b.mp4"
    /\ ret.formats[4].url = "bak2/hd-mp4.flv"
    /\ ret.formats[4].preference = -3

-----------------------------------------------------------------------------
(* BiliBiliBangumiIE._real_extract *)

\* the 'index' texts of the season's episodes; <<>> is an episode without one
IndexTexts == {<<>>, Text("1"), Text("2"), Text("3"), Text("SP")}

\* the i-th episode of seasoninfo's 'episodes'
Episode(i, t) ==
    IF t = <<>> THEN [webplay_url |-> <<"ep", i>>]
    ELSE [webplay_url |-> <<"ep", i>>, index |-> t]

EpisodeLists ==
    {[i \in 1..Len(ts) |-> Episode(i, ts[i])] : ts \in SeqsUpTo(IndexTexts, MaxEpisodes)}

\* lines 382-389
BangumiEntries(episodes) ==
    [i \in 1..Len(episodes) |->
        [url |-> episodes[i].webplay_url,
         episode_number |-> IF Has(episodes[i], "index")
                            THEN int_or_none(episodes[i].index) ELSE None]]

\* stable insertion by ascending episode_number; every number is an integer
RECURSIVE InsertByNumber(_, _)
InsertByNumber(sorted, x) ==
    IF sorted = <<>> THEN <<x>>
    ELSE IF x.episode_number[1] < sorted[1].episode_number[1] THEN <<x>> \o sorted
    ELSE <<sorted[1]>> \o InsertByNumber(Tail(sorted), x)

RECURSIVE SortByNumber(_, _)
SortByNumber(sorted, rest) ==
    IF rest = <<>> THEN sorted
    ELSE SortByNumber(InsertByNumber(sorted, rest[1]), Tail(rest))

\* line 391: sorted(entries, key=lambda entry: entry.get('episode_number')).
\* With two or more entries every key is compared, and comparing None
\* raises TypeError.
SortedEntries(es) ==
    IF Len(es) >= 2 /\ \E i \in 1..Len(es) : es[i].episode_number = None
    THEN Crash("TypeError")
    ELSE [kind |-> "playlist", entries |-> SortByNumber(<<>>, es)]

InitBangumi ==
    /\ pc = "idle" /\ num = 0 /\ video_info = [kind |-> "unset"] /\ entries = <<>>
    /\ playinfo = <<>> /\ playinfo_entry = [kind |-> "unset"] /\ fetched = <<>>
    /\ result = Pending
    /\ \E eps \in EpisodeLists : call = [fn |-> "bangumi", episodes |-> eps]
    /\ ret = Pending
    /\ NoChannel

\* lines 375-395; the season info request is fatal
BangumiExtract ==
    /\ call.fn = "bangumi"
    /\ ret = Pending
    /\ \/ \E c \in Causes : ret' = Raise(TransportError(c))
       \/ ret' = SortedEntries(BangumiEntries(call.episodes))
    /\ UNCHANGED <<pc, num, video_info, entries, playinfo, playinfo_entry, fetched,
                   result, call>>
    /\ UNCHANGED chan

NextBangumi == BangumiExtract

SpecBangumi == InitBangumi /\ [][NextBangumi]_vars

\* the input position of a playlist entry
InputPosition(e) == e.url[2]

(* C6 as claimed: once the season info is there, the playlist is composed    *)
(* whatever the numbers are, in ascending episode number, entries without a  *)
(* usable number behind all numbered ones, entries with equal or missing     *)
(* numbers in their input order.                                             *)
C6_EpisodeOrdering ==
    (ret # Pending /\ ret.kind # "error") =>
        /\ ret.kind = "playlist"
        /\ Len(ret.entries) = Len(call.episodes)
        /\ \A i, j \in 1..Len(ret.entries) : i < j =>
              LET a == ret.entries[i].episode_number
                  b == ret.entries[j].episode_number
              IN /\ a = None => b = None
                 /\ (a # None /\ b # None) => a[1] <= b[1]
                 /\ a = b => InputPosition(ret.entries[i]) < InputPosition(ret.entries[j])


-----------------------------------------------------------------------------
(* BiliBiliChannelVideoIE._real_extract *)

channel_id == "12345"

\* elements of a page's 'vlist'
Video1 == [bvid |-> "BV1", title |-> "t1", created |-> 1]
Video2 == [bvid |-> "BV2"]

PageLists == {<<>>, <<Video1>>, <<Video2, Video1>>}

\* what one request of x/space/arc/search can come to: a failed request, an
\* object without 'data', or a page with its 'vlist' and the total 'count'
ChannelResponses ==
    {[kind |-> "fail", cause |-> c] : c \in Causes}
    \cup {[kind |-> "dict", dict |-> <<>>]}
    \cup {[kind |-> "dict",
           dict |-> [data |-> [list |-> [vlist |-> l], page |-> [count |-> c]]]] :
             l \in PageLists, c \in 0..MaxCount}

\* lines 537-544: the entries made of one page
ChannelItems(list) ==
    [k \in 1..Len(list) |->
        [url |-> <<"www.bilibili.com", "video", list[k].bvid>>,
         ie_key |-> "BiliBili",
         title |-> IF Has(list[k], "title") THEN Some(list[k].title) ELSE None,
         description |-> IF Has(list[k], "description")
                         THEN Some(list[k].description) ELSE None,
         timestamp |-> IF Has(list[k], "created") THEN Some(list[k].created) ELSE None]]

\* a plausible slip: the reported total is not looked at
StopOnlyOnEmpty(list, gathered, count) == list = <<>>

\* line 545: if not list or len(items) >= response['data']['page']['count']
StopPaging(list, gathered, count) == list = <<>> \/ Len(gathered) >= count

InitChannel ==
    /\ pc = "channel"
    /\ pn = 1
    /\ items = <<>>
    /\ requested = <<>>
    /\ fetched = <<>>
    /\ result = Pending
    /\ num = 0 /\ video_info = [kind |-> "unset"] /\ entries = <<>>
    /\ playinfo = <<>> /\ playinfo_entry = [kind |-> "unset"]
    /\ call = Idle /\ ret = Pending

\* lines 533-549: one iteration of "while True", with the return that
\* follows its "break"; the request of a page is fatal
FetchChannelPage ==
    /\ pc = "channel"
    /\ pn <= MaxPages
    /\ \E resp \in ChannelResponses :
          /\ requested' = Append(requested, pn)
          /\ fetched' = Append(fetched, resp)
          /\ IF resp.kind = "fail"
             THEN /\ result' = Raise(TransportError(resp.cause))
                  /\ pc' = "done"
                  /\ UNCHANGED <<pn, items>>
             ELSE IF ~Has(resp.dict, "data")
             THEN /\ result' = Crash("KeyError")
                  /\ pc' = "done"
                  /\ UNCHANGED <<pn, items>>
             ELSE LET list == resp.dict.data.list.vlist
                      gathered == items \o ChannelItems(list)
                  IN /\ items' = gathered
                     /\ IF StopPaging(list, gathered, resp.dict.data.page.count)
                        THEN /\ result' = [kind |-> "playlist", id |-> channel_id,
                                           entries |-> gathered]
                             /\ pc' = "done"
                             /\ UNCHANGED pn
                        ELSE /\ pn' = pn + 1
                             /\ UNCHANGED <<pc, result>>
    /\ UNCHANGED <<num, video_info, entries, playinfo, playinfo_entry, call, ret>>

NextChannel == FetchChannelPage

\* the extractor runs sequentially: a step that can be taken is taken
SpecChannel == InitChannel /\ [][NextChannel]_vars /\ WF_vars(NextChannel)

\* the k-th fetched response is a page
IsPage(k) == fetched[k].kind = "dict" /\ "data" \in DOMAIN fetched[k].dict

PageList(k) == fetched[k].dict.data.list.vlist

\* the bvids of the pages 1..k, in page order
RECURSIVE BvidsUpTo(_)
BvidsUpTo(k) ==
    IF k = 0 THEN <<>>
    ELSE BvidsUpTo(k - 1) \o [j \in 1..Len(PageList(k)) |-> PageList(k)[j].bvid]

\* page k is empty, or the items of the pages 1..k reach the total it reports
PageStops(k) ==
    \/ Len(PageList(k)) = 0
    \/ Len(BvidsUpTo(k)) >= fetched[k].dict.data.page.count

C12_Paging ==
    /\ Len(requested) = Len(fetched)
    /\ \A k \in 1..Len(requested) : requested[k] = k
    /\ \A k \in 1..(Len(fetched) - 1) : IsPage(k) /\ ~PageStops(k)
    /\ (Len(fetched) >= 1 /\ IsPage(Len(fetched)) /\ PageStops(Len(fetched))) =>
          /\ pc = "done"
          /\ result.kind = "playlist"
    /\ (pc = "done" /\ result.kind = "playlist") =>
          /\ IsPage(Len(fetched)) /\ PageStops(Len(fetched))
          /\ Len(result.entries) = Len(BvidsUpTo(Len(fetched)))
          /\ \A j \in 1..Len(result.entries) :
                result.entries[j].url = <<"www.bilibili.com", "video",
                                          BvidsUpTo(Len(fetched))[j]>>

(* C12: the pages are requested as 1, 2, 3, .. with none twice; paging stops *)
(* right after the first page that is empty or with which the gathered items *)
(* reach the total it reports, and never before; the playlist returned holds *)
(* the items of all fetched pages in page order; and the extraction ends     *)
(* unless the provider keeps sending non-empty pages below the total (here   *)
(* up to the page bound of the model).                                       *)
C12_Pagination == [](C12_Paging) /\ <>(pc = "done" \/ pn > MaxPages)

C12_Witness ==
    /\ pc = "done"
    /\ result.kind = "playlist"
    /\ requested = <<1, 2, 3>>
    /\ Len(PageList(1)) = 2 /\ Len(PageList(2)) = 1 /\ Len(PageList(3)) = 0
    /\ Len(result.entries) = 3
    /\ result.entries[3].url = <<"www.bilibili.com", "video", "BV1">>

=============================================================================
